---------------------------- MODULE Spec2Model ----------------------------
(***************************************************************************)
(* A model of eth-portfolio's balance containers (eth_portfolio/typing.py) *)
(* and of the per-address snapshot (eth_portfolio/address.py).             *)
(*                                                                         *)
(* Numbers.  A Decimal is modelled in fixed point: token amounts count     *)
(* units of 1e-10, prices units of 1e-9, so that a product amount * price  *)
(* counts units of 1e-19 and round(value, 18) rounds it to a multiple of   *)
(* ten such units (half to even, Decimal's default).  usd_value fields     *)
(* count units of 1e-19.                                                   *)
(*                                                                         *)
(* Containers.  A dict is a function from its key set to its values; a     *)
(* key that is absent is outside the DOMAIN.  Python compares dicts        *)
(* regardless of insertion order, as function equality does.               *)
(*                                                                         *)
(* Exceptions.  An operation that can raise yields a record with ok=FALSE  *)
(* and the exception's class in err.                                       *)
(***************************************************************************)
EXTENDS Integers, Sequences, FiniteSets, TLC

VARIABLES
    block,      \* describe's argument, once describe was called
    tokens,     \* the tokens the transfer ledger listed for the address
    leaf,       \* each collaborator request: idle, inflight, ok, absent, failed
    task,       \* each coroutine of the snapshot: its status, error and result
    balances,   \* the WalletBalances that _describe_async fills in
    outcome,    \* what describe delivered to its caller
    lhs,        \* container algebra: the left operand (self)
    rhs,        \* container algebra: the right operand (other, or key and value)
    op,         \* container algebra: the last operation applied
    res         \* container algebra: what that operation yielded

snapVars == <<block, tokens, leaf, task, balances, outcome>>
algVars == <<lhs, rhs, op, res>>
vars == <<block, tokens, leaf, task, balances, outcome, lhs, rhs, op, res>>

---------------------------------------------------------------------------
(* Bounds of the model.                                                    *)

\* how many tokens the transfer ledger may list for the address
NumTokens == 1
\* how many collaborator requests of one snapshot may fail
MaxFailures == 1
\* how many price requests of one snapshot may come back without a price
MaxAbsent == 1
\* token keys of the operands of the container algebra
NumKeys == 2
\* wallets of a PortfolioBalances
NumWallets == 2

---------------------------------------------------------------------------
(* Outcomes of operations that may raise.                                  *)

Ok(v) == [ok |-> TRUE, val |-> v, err |-> "none"]
Err(e) == [ok |-> FALSE, val |-> <<>>, err |-> e]

---------------------------------------------------------------------------
(* Balance (typing.py 46-81).                                              *)

Balance(b, u) == [balance |-> b, usd_value |-> u]

\* Balance() : both fields default to Decimal()
Balance0 == Balance(0, 0)

Balance_add(self, other) ==
    Balance(self.balance + other.balance, self.usd_value + other.usd_value)

Balance_sub(self, other) ==
    Balance(self.balance - other.balance, self.usd_value - other.usd_value)

Balance_bool(self) == self.balance # 0 \/ self.usd_value # 0

---------------------------------------------------------------------------
(* TokenBalances (typing.py 86-135): token -> Balance.                     *)

EmptyDict == [k \in {} |-> Balance0]

\* __init__ with a seed: self[token] += balance on a fresh default entry
TokenBalances_init(seed) ==
    [t \in DOMAIN seed |-> Balance_add(Balance0, seed[t])]

TokenBalances_bool(self) == \E t \in DOMAIN self : Balance_bool(self[t])

\* combined.__getattr_nochecksum(token), written inside class TokenBalances,
\* is the attribute _TokenBalances__getattr_nochecksum (private name
\* mangling), which no class defines: the lookup raises AttributeError.
getattr_nochecksum(combined, token) == Err("AttributeError")

TokenBalances_add(self, other) ==
    LET kept == {t \in DOMAIN self : Balance_bool(self[t])}
        combined == [t \in kept |->
                        Balance(self[t].balance, self[t].usd_value)]
        live == {t \in DOMAIN other : Balance_bool(other[t])}
        old == [t \in live \cap kept |-> getattr_nochecksum(combined, t)]
    IN  IF \E t \in live \cap kept : ~old[t].ok
        THEN Err(old[CHOOSE t \in live \cap kept : ~old[t].ok].err)
        ELSE Ok([t \in kept \cup live |->
                    IF t \in kept /\ t \in live
                    THEN Balance_add(old[t].val, other[t])
                    ELSE IF t \in kept THEN combined[t]
                    ELSE Balance(other[t].balance, other[t].usd_value)])

\* subtracted[token] on a DefaultChecksumDict: the stored value, or a fresh
\* Balance() for a missing key
TokenBalances_get(self, token) ==
    IF token \in DOMAIN self THEN self[token] ELSE Balance0

\* the closing loop deletes from subtracted while iterating
\* subtracted.items(): the iterator's next step raises RuntimeError
\* ("dictionary changed size during iteration") once any entry was deleted
TokenBalances_sub(self, other) ==
    LET seeded == TokenBalances_init(self)
        keys == DOMAIN seeded \cup DOMAIN other
        subtracted == [t \in keys |->
                          IF t \in DOMAIN other
                          THEN Balance_sub(TokenBalances_get(seeded, t), other[t])
                          ELSE seeded[t]]
    IN  IF \E t \in keys : ~Balance_bool(subtracted[t])
        THEN Err("RuntimeError")
        ELSE Ok(subtracted)

---------------------------------------------------------------------------
(* WalletBalances (typing.py 141-207): category -> TokenBalances.          *)

\* __validateitem, had its list of valid keys also named 'external', the key
\* _describe_async assigns
validateitem_with_external(key) == key \in {"assets", "debt", "external"}

\* __validateitem: TRUE when the key passes, FALSE when KeyError is raised
validateitem(key) == key \in {"assets", "debt"}

\* __getitem__: a defaultdict, so a valid key that is missing is inserted
\* with a fresh TokenBalances() before it is returned.  self is the
\* container after the call.
WalletBalances_getitem(self, key) ==
    IF ~validateitem(key)
    THEN [ok |-> FALSE, val |-> EmptyDict, err |-> "KeyError", self |-> self]
    ELSE IF key \in DOMAIN self
    THEN [ok |-> TRUE, val |-> self[key], err |-> "none", self |-> self]
    ELSE [ok |-> TRUE, val |-> EmptyDict, err |-> "none",
          self |-> [k \in DOMAIN self \cup {key} |->
                       IF k = key THEN EmptyDict ELSE self[k]]]

WalletBalances_setitem(self, key, value) ==
    IF ~validateitem(key)
    THEN [ok |-> FALSE, val |-> EmptyDict, err |-> "KeyError", self |-> self]
    ELSE [ok |-> TRUE, val |-> EmptyDict, err |-> "none",
          self |-> [k \in DOMAIN self \cup {key} |->
                       IF k = key THEN value ELSE self[k]]]

---------------------------------------------------------------------------
(* PortfolioBalances (typing.py 214-269): wallet -> WalletBalances, and    *)
(* PortfolioBalancesByCategory (typing.py 326-385): category -> wallet ->  *)
(* TokenBalances.                                                          *)

\* d[k] = v on a dict
Put(d, k, v) == [x \in DOMAIN d \cup {k} |-> IF x = k THEN v ELSE d[x]]

\* d[k] on a defaultdict without key validation: a missing key yields a
\* fresh, empty container
Get(d, k) == IF k \in DOMAIN d THEN d[k] ELSE EmptyDict

\* the (wallet, category) pairs the two nested loops of inverted visit
WalletItems(self) ==
    UNION {{<<w, c>> : c \in DOMAIN self[w]} : w \in DOMAIN self}

\* the (category, wallet) pairs the two nested loops of invert visit
CategoryItems(self) ==
    UNION {{<<c, w>> : w \in DOMAIN self[c]} : c \in DOMAIN self}

\* the loops of PortfolioBalances.inverted over the items still to visit:
\* inverted[label][wallet] += tbalances
RECURSIVE inverted_loop(_, _, _)
inverted_loop(self, todo, inverted) ==
    IF todo = {} THEN Ok(inverted)
    ELSE LET e == CHOOSE x \in todo : TRUE
             wallet == e[1]
             label == e[2]
             tbalances == self[wallet][label]
             raw == Get(inverted, label)
             sum == TokenBalances_add(Get(raw, wallet), tbalances)
         IN  IF ~TokenBalances_bool(tbalances)
             THEN inverted_loop(self, todo \ {e}, inverted)
             ELSE IF ~sum.ok THEN Err(sum.err)
             ELSE inverted_loop(self, todo \ {e},
                      Put(inverted, label, Put(raw, wallet, sum.val)))

\* inverted, had it assigned inverted[label] = {wallet: tbalances} in place
\* of adding into inverted[label][wallet]
RECURSIVE inverted_replacing_loop(_, _, _)
inverted_replacing_loop(self, todo, inverted) ==
    IF todo = {} THEN Ok(inverted)
    ELSE LET e == CHOOSE x \in todo : TRUE
             tbalances == self[e[1]][e[2]]
         IN  IF ~TokenBalances_bool(tbalances)
             THEN inverted_replacing_loop(self, todo \ {e}, inverted)
             ELSE inverted_replacing_loop(self, todo \ {e},
                      Put(inverted, e[2], Put(EmptyDict, e[1], tbalances)))

inverted_replacing(self) ==
    inverted_replacing_loop(self, WalletItems(self), EmptyDict)

PortfolioBalances_inverted(self) ==
    inverted_loop(self, WalletItems(self), EmptyDict)

\* the loops of PortfolioBalancesByCategory.invert:
\* inverted[wallet][label] += tbalances, where inverted[wallet] is a
\* WalletBalances and validates label on the read and on the write
RECURSIVE invert_loop(_, _, _)
invert_loop(self, todo, inverted) ==
    IF todo = {} THEN Ok(inverted)
    ELSE LET e == CHOOSE x \in todo : TRUE
             label == e[1]
             wallet == e[2]
             tbalances == self[label][wallet]
             read == WalletBalances_getitem(Get(inverted, wallet), label)
             sum == TokenBalances_add(read.val, tbalances)
             write == WalletBalances_setitem(read.self, label, sum.val)
         IN  IF ~TokenBalances_bool(tbalances)
             THEN invert_loop(self, todo \ {e}, inverted)
             ELSE IF ~read.ok THEN Err(read.err)
             ELSE IF ~sum.ok THEN Err(sum.err)
             ELSE IF ~write.ok THEN Err(write.err)
             ELSE invert_loop(self, todo \ {e},
                      Put(inverted, wallet, write.self))

PortfolioBalancesByCategory_invert(self) ==
    invert_loop(self, CategoryItems(self), EmptyDict)

---------------------------------------------------------------------------
(* Pricing (address.py 30-42, 133-139).                                    *)

\* a price the collaborator could not resolve is None
None == <<>>
Some(x) == <<x>>

\* round(value, 18) of a value counted in units of 1e-19: the nearest
\* multiple of ten units, a tie going to the even eighteenth digit
Round18(v) ==
    LET q == v \div 10
        r == v % 10
    IN  IF r < 5 THEN 10 * q
        ELSE IF r > 5 THEN 10 * (q + 1)
        ELSE IF q % 2 = 0 THEN 10 * q ELSE 10 * (q + 1)

\* _calc_value
calc_value(balance, price) ==
    IF price = None THEN 0 ELSE Round18(balance * price[1])

\* the body of _eth_balance_async after its gather: Decimal(price) raises
\* TypeError for price None, _calc_value is not used here
eth_balance_value(balance, price) ==
    IF price = None
    THEN Err("TypeError")
    ELSE Ok(Balance(balance, Round18(balance * price[1])))

---------------------------------------------------------------------------
(* Collaborators.  Token addresses are numbers: 1..NumTokens are the       *)
(* tokens the ledger may list, the others are the addresses the source     *)
(* imports.                                                                *)

EEE_ADDRESS == 0
dai == 101
yfi == 102
cvx == 103

Tokens == 1 .. NumTokens

\* what the chain and the price oracle answer, when they answer
NativeOut == [amount |-> 25, price |-> Some(3)]
TokenAmount(t) == 10 * t + 5
TokenPrice(t) == Some(t)

\* what the protocol modules answer, when they answer
DebtOut == [t \in {dai} |-> Balance(2, 20)]
StakingOut == [t \in {cvx} |-> Balance(4, 40)]
CollateralOut == [t \in {yfi} |-> Balance(1, 10)]

\* a collaborator request: its kind and, for a per-token request, the token
TokenLeaves == {"balance_of", "price"} \X Tokens
Leaves ==
    ({"eth_balance", "eth_price", "list_tokens", "debt", "staking",
      "collateral"} \X {EEE_ADDRESS}) \cup TokenLeaves
PriceLeaves == {<<"eth_price", EEE_ADDRESS>>} \cup ({"price"} \X Tokens)

L(kind) == <<kind, EEE_ADDRESS>>

\* the coroutines that await a gather
Tasks == {"eth", "tok", "assets", "ext"}

---------------------------------------------------------------------------
(* The snapshot: PortfolioAddress.describe (address.py 78-169).            *)

\* describe's block argument: an int, None, or a float counted in halves
NoBlock == [kind |-> "none", n |-> 0]
BlockInputs ==
    [kind : {"int"}, n : -1 .. 1] \cup {NoBlock} \cup [kind : {"float"}, n : {0, 3}]

\* Python truth of a block: None, 0 and 0.0 are false
Truthy(b) == b.kind # "none" /\ b.n # 0
IsInt(b) == b.kind = "int"

\* the two asserts that open _describe_async
describe_asserts(b) == Truthy(b) /\ IsInt(b)

Settled(l) == leaf[l] \in {"ok", "absent", "failed"}
NumFailed == Cardinality({l \in Leaves : leaf[l] = "failed"})
NumAbsent == Cardinality({l \in Leaves : leaf[l] = "absent"})

\* a gather that holds a member's exception back until every member has
\* settled
GatherRaisedOnceSettled(ls, ts) ==
    /\ \/ \E l \in ls : leaf[l] = "failed"
       \/ \E t \in ts : task[t].st = "failed"
    /\ \A l \in ls : Settled(l)
    /\ \A t \in ts : task[t].st \in {"ok", "failed"}

\* asyncio.gather over requests ls and coroutines ts, as its awaiter sees
\* it: it raises as soon as one member has raised, whatever the others do,
\* and returns once every member has returned
GatherRaised(ls, ts) ==
    \/ \E l \in ls : leaf[l] = "failed"
    \/ \E t \in ts : task[t].st = "failed"

GatherReturned(ls, ts) ==
    /\ \A l \in ls : leaf[l] \in {"ok", "absent"}
    /\ \A t \in ts : task[t].st = "ok"

GatherErrors(ls, ts) ==
    {"ChainQueryError" : l \in {x \in ls : leaf[x] = "failed"}}
        \cup {task[t].err : t \in {x \in ts : task[x].st = "failed"}}

Waiting == [st |-> "waiting", err |-> "none", val |-> EmptyDict]
Failed(e) == [st |-> "failed", err |-> e, val |-> EmptyDict]
Returned(v) == [st |-> "ok", err |-> "none", val |-> v]

\* the answer of a price request that has completed
PriceOf(l, price) == IF leaf[l] = "absent" THEN None ELSE price

EthLeaves == {L("eth_balance"), L("eth_price")}
ExtLeaves == {L("staking"), L("collateral")}
TokLeaves == {"balance_of", "price"} \X tokens

\* describe(block): the asserts, then the three coroutines start and every
\* request that does not depend on another one is issued
Describe(b) ==
    /\ outcome.kind = "idle"
    /\ block' = b
    /\ IF describe_asserts(b)
       THEN /\ outcome' = [outcome EXCEPT !.kind = "running"]
            /\ leaf' = [l \in Leaves |->
                           IF l \in TokenLeaves THEN "idle" ELSE "inflight"]
            /\ task' = [t \in Tasks |->
                           IF t = "tok" THEN [Waiting EXCEPT !.st = "listing"]
                           ELSE Waiting]
       ELSE /\ outcome' = [outcome EXCEPT !.kind = "raised",
                                          !.err = "AssertionError"]
            /\ UNCHANGED <<leaf, task>>
    /\ UNCHANGED <<tokens, balances, algVars>>

\* a collaborator answers; the ledger's answer is the token list
SettleOk(l) ==
    /\ leaf[l] = "inflight"
    /\ leaf' = [leaf EXCEPT ![l] = "ok"]
    /\ IF l = L("list_tokens")
       THEN \E n \in 0 .. NumTokens : tokens' = 1 .. n
       ELSE UNCHANGED tokens
    /\ UNCHANGED <<block, task, balances, outcome, algVars>>

\* the price oracle answers None
SettleAbsent(l) ==
    /\ l \in PriceLeaves
    /\ leaf[l] = "inflight"
    /\ NumAbsent < MaxAbsent
    /\ leaf' = [leaf EXCEPT ![l] = "absent"]
    /\ UNCHANGED <<block, tokens, task, balances, outcome, algVars>>

\* a collaborator raises
SettleFail(l) ==
    /\ leaf[l] = "inflight"
    /\ NumFailed < MaxFailures
    /\ leaf' = [leaf EXCEPT ![l] = "failed"]
    /\ UNCHANGED <<block, tokens, task, balances, outcome, algVars>>

\* _eth_balance_async resumes from its gather
EthResume ==
    /\ task["eth"].st = "waiting"
    /\ \/ /\ GatherRaised(EthLeaves, {})
          /\ \E e \in GatherErrors(EthLeaves, {}) :
                task' = [task EXCEPT !["eth"] = Failed(e)]
       \/ /\ ~GatherRaised(EthLeaves, {})
          /\ GatherReturned(EthLeaves, {})
          /\ LET r == eth_balance_value(NativeOut.amount,
                          PriceOf(L("eth_price"), NativeOut.price))
             IN  task' = [task EXCEPT !["eth"] =
                             IF r.ok THEN Returned(r.val) ELSE Failed(r.err)]
    /\ UNCHANGED <<block, tokens, leaf, balances, outcome, algVars>>

\* _token_balances_async resumes with the token list and issues the
\* per-token balance and price requests
TokListed ==
    /\ task["tok"].st = "listing"
    /\ Settled(L("list_tokens"))
    /\ IF leaf[L("list_tokens")] = "failed"
       THEN /\ task' = [task EXCEPT !["tok"] = Failed("ChainQueryError")]
            /\ UNCHANGED leaf
       ELSE /\ task' = [task EXCEPT !["tok"] = Waiting]
            /\ leaf' = [l \in Leaves |->
                           IF l \in TokLeaves THEN "inflight" ELSE leaf[l]]
    /\ UNCHANGED <<block, tokens, balances, outcome, algVars>>

\* _token_balances_async resumes from its gather of gathers
TokResume ==
    /\ task["tok"].st = "waiting"
    /\ \/ /\ GatherRaised(TokLeaves, {})
          /\ \E e \in GatherErrors(TokLeaves, {}) :
                task' = [task EXCEPT !["tok"] = Failed(e)]
       \/ /\ ~GatherRaised(TokLeaves, {})
          /\ GatherReturned(TokLeaves, {})
          /\ task' = [task EXCEPT !["tok"] = Returned(TokenBalances_init(
                [t \in tokens |->
                    Balance(TokenAmount(t),
                            calc_value(TokenAmount(t),
                                       PriceOf(<<"price", t>>, TokenPrice(t))))]))]
    /\ UNCHANGED <<block, tokens, leaf, balances, outcome, algVars>>

\* _balances_async (awaited by _assets_async) resumes from its gather
AssetsResume ==
    /\ task["assets"].st = "waiting"
    /\ \/ /\ GatherRaised({}, {"eth", "tok"})
          /\ \E e \in GatherErrors({}, {"eth", "tok"}) :
                task' = [task EXCEPT !["assets"] = Failed(e)]
       \/ /\ ~GatherRaised({}, {"eth", "tok"})
          /\ GatherReturned({}, {"eth", "tok"})
          /\ LET token_balances == task["tok"].val
             IN  task' = [task EXCEPT !["assets"] = Returned(
                    [t \in DOMAIN token_balances \cup {EEE_ADDRESS} |->
                        IF t = EEE_ADDRESS THEN task["eth"].val
                        ELSE token_balances[t]])]
    /\ UNCHANGED <<block, tokens, leaf, balances, outcome, algVars>>

\* _external_balances_async resumes from its gather
ExtResume ==
    /\ task["ext"].st = "waiting"
    /\ \/ /\ GatherRaised(ExtLeaves, {})
          /\ \E e \in GatherErrors(ExtLeaves, {}) :
                task' = [task EXCEPT !["ext"] = Failed(e)]
       \/ /\ ~GatherRaised(ExtLeaves, {})
          /\ GatherReturned(ExtLeaves, {})
          /\ LET r == TokenBalances_add(StakingOut, CollateralOut)
             IN  task' = [task EXCEPT !["ext"] =
                             IF r.ok THEN Returned(r.val) ELSE Failed(r.err)]
    /\ UNCHANGED <<block, tokens, leaf, balances, outcome, algVars>>

\* _describe_async resumes from its gather and assigns the three results,
\* left to right, to balances['assets'], ['debt'] and ['external']
DescribeResume ==
    /\ outcome.kind = "running"
    /\ \/ /\ GatherRaised({L("debt")}, {"assets", "ext"})
          /\ \E e \in GatherErrors({L("debt")}, {"assets", "ext"}) :
                outcome' = [outcome EXCEPT !.kind = "raised", !.err = e]
          /\ UNCHANGED balances
       \/ /\ ~GatherRaised({L("debt")}, {"assets", "ext"})
          /\ GatherReturned({L("debt")}, {"assets", "ext"})
          /\ LET s1 == WalletBalances_setitem(balances, "assets",
                                              task["assets"].val)
                 s2 == WalletBalances_setitem(s1.self, "debt", DebtOut)
                 s3 == WalletBalances_setitem(s2.self, "external",
                                              task["ext"].val)
             IN  /\ balances' = s3.self
                 /\ outcome' =
                      IF s3.ok
                      THEN [kind |-> "returned", err |-> "none", val |-> s3.self]
                      ELSE [kind |-> "raised", err |-> s3.err, val |-> EmptyDict]
    /\ UNCHANGED <<block, tokens, leaf, task, algVars>>

SnapInit ==
    /\ block = [kind |-> "unset", n |-> 0]
    /\ tokens = {}
    /\ leaf = [l \in Leaves |-> "idle"]
    /\ task = [t \in Tasks |-> [st |-> "idle", err |-> "none", val |-> EmptyDict]]
    /\ balances = EmptyDict
    /\ outcome = [kind |-> "idle", err |-> "none", val |-> EmptyDict]

AlgIdle ==
    /\ lhs = EmptyDict
    /\ rhs = EmptyDict
    /\ op = "none"
    /\ res = Ok(EmptyDict)

Init == SnapInit /\ AlgIdle

Next ==
    \/ \E b \in BlockInputs : Describe(b)
    \/ \E l \in Leaves : SettleOk(l)
    \/ \E l \in Leaves : SettleAbsent(l)
    \/ \E l \in Leaves : SettleFail(l)
    \/ EthResume
    \/ TokListed
    \/ TokResume
    \/ AssetsResume
    \/ ExtResume
    \/ DescribeResume

Spec == Init /\ [][Next]_vars

---------------------------------------------------------------------------
(* The container algebra, applied to operands drawn from small sets.       *)

\* the Balances an operand may hold: a short and a long position, the
\* zero Balance (a plain insertion keeps it) and an unpriced amount
Balances == {Balance(5, 50), Balance(-5, -50), Balance0, Balance(5, 0)}

\* every TokenBalances over the token keys ks
TokenBalancesOver(ks) ==
    UNION {[d -> Balances] : d \in SUBSET ks}

Categories == {"assets", "debt"}
\* the keys a caller may pass to a WalletBalances
CategoryKeys == Categories \cup {"collateral", "external"}

\* every WalletBalances: its keys passed __validateitem when they were set
WalletBalancesAll ==
    UNION {[d -> TokenBalancesOver(1 .. 1)] : d \in SUBSET Categories}

Wallets == 1 .. NumWallets

PortfolioBalancesAll ==
    UNION {[d -> WalletBalancesAll] : d \in SUBSET Wallets}

(* TokenBalances: a + b, a - b and (a + b) - b *)

TBInit ==
    /\ SnapInit
    /\ lhs \in TokenBalancesOver(1 .. NumKeys)
    /\ rhs \in TokenBalancesOver(1 .. NumKeys)
    /\ op = "none"
    /\ res = Ok(EmptyDict)

Add ==
    /\ op = "none"
    /\ op' = "add"
    /\ res' = TokenBalances_add(lhs, rhs)
    /\ UNCHANGED <<lhs, rhs, snapVars>>

Sub ==
    /\ op = "none"
    /\ op' = "sub"
    /\ res' = TokenBalances_sub(lhs, rhs)
    /\ UNCHANGED <<lhs, rhs, snapVars>>

\* (a + b) - b: the sum, when there is one, minus b
SubBack ==
    /\ op = "add"
    /\ res.ok
    /\ op' = "add_sub"
    /\ res' = TokenBalances_sub(res.val, rhs)
    /\ UNCHANGED <<lhs, rhs, snapVars>>

TBNext == Add \/ Sub \/ SubBack

SpecTokenBalances == TBInit /\ [][TBNext]_vars

(* WalletBalances: balances[key] and balances[key] = value.  rhs records  *)
(* the call: its key, its value and the container before the call.        *)

NoCall == [key |-> "assets", value |-> EmptyDict, before |-> EmptyDict]

WBInit ==
    /\ SnapInit
    /\ lhs \in WalletBalancesAll
    /\ rhs = NoCall
    /\ op = "none"
    /\ res = Ok(EmptyDict)

GetItem(key) ==
    LET r == WalletBalances_getitem(lhs, key)
    IN  /\ op' = "getitem"
        /\ rhs' = [key |-> key, value |-> EmptyDict, before |-> lhs]
        /\ res' = [ok |-> r.ok, val |-> r.val, err |-> r.err]
        /\ lhs' = r.self
        /\ UNCHANGED snapVars

SetItem(key, value) ==
    LET r == WalletBalances_setitem(lhs, key, value)
    IN  /\ op' = "setitem"
        /\ rhs' = [key |-> key, value |-> value, before |-> lhs]
        /\ res' = [ok |-> r.ok, val |-> r.val, err |-> r.err]
        /\ lhs' = r.self
        /\ UNCHANGED snapVars

WBNext ==
    \/ \E key \in CategoryKeys : GetItem(key)
    \/ \E key \in CategoryKeys, value \in TokenBalancesOver(1 .. 1) :
          SetItem(key, value)

SpecWalletBalances == WBInit /\ [][WBNext]_vars

(* PortfolioBalances: p.inverted, then .invert() of the result.  rhs      *)
(* keeps the inverted form once it was inverted back.                     *)

PBInit ==
    /\ SnapInit
    /\ lhs \in PortfolioBalancesAll
    /\ rhs = EmptyDict
    /\ op = "none"
    /\ res = Ok(EmptyDict)

Inverted ==
    /\ op = "none"
    /\ op' = "inverted"
    /\ res' = PortfolioBalances_inverted(lhs)
    /\ UNCHANGED <<lhs, rhs, snapVars>>

Invert ==
    /\ op = "inverted"
    /\ res.ok
    /\ op' = "invert"
    /\ rhs' = res.val
    /\ res' = PortfolioBalancesByCategory_invert(res.val)
    /\ UNCHANGED <<lhs, snapVars>>

PBNext == Inverted \/ Invert

SpecPortfolio == PBInit /\ [][PBNext]_vars

---------------------------------------------------------------------------
(* Objects.  The containers are mutable objects that hold references to    *)
(* mutable objects, so whether an operation leaves its inputs alone is a   *)
(* question about the heap.  A heap is a sequence of objects, a reference  *)
(* an index into it; a dict object maps its keys to references, a Balance  *)
(* object is its two fields.  An operation yields the heap after it and,   *)
(* when it returned, the reference it returned.                            *)

\* a constructor call: a new object
New(h, obj) == [h |-> Append(h, obj), ref |-> Len(h) + 1]

HOk(h, ref) == [ok |-> TRUE, err |-> "none", h |-> h, ref |-> ref]
HErr(h, e) == [ok |-> FALSE, err |-> e, h |-> h, ref |-> 0]

\* d[k] = v, in place
StoreItem(h, d, k, v) == [h EXCEPT ![d] = Put(h[d], k, v)]

\* the value a reference stands for, depth levels of dict above the Balances
RECURSIVE Deep(_, _, _)
Deep(h, ref, depth) ==
    IF depth = 0 THEN h[ref]
    ELSE [k \in DOMAIN h[ref] |-> Deep(h, h[ref][k], depth - 1)]

\* a container built from a value, every nested object a new one
RECURSIVE Build(_, _, _)
RECURSIVE BuildItems(_, _, _, _, _)
Build(h, v, depth) ==
    IF depth = 0 THEN New(h, v)
    ELSE BuildItems(h, v, DOMAIN v, depth, EmptyDict)

BuildItems(h, v, todo, depth, items) ==
    IF todo = {} THEN New(h, items)
    ELSE LET k == CHOOSE x \in todo : TRUE
             child == Build(h, v[k], depth - 1)
         IN  BuildItems(child.h, v, todo \ {k}, depth, Put(items, k, child.ref))

\* an operand of + and -: an object and its class
Obj(cls, ref) == [cls |-> cls, ref |-> ref]

\* x + y and x - y, defined below with the classes they dispatch to
RECURSIVE Plus(_, _, _)
RECURSIVE Minus(_, _, _)

(* TokenBalances on the heap (typing.py 86-135) *)

H_TokenBalances_bool(h, self) ==
    \E t \in DOMAIN h[self] : Balance_bool(h[h[self][t]])

\* Balance(balance.balance, balance.usd_value), had __add__ stored the
\* operand's own Balance object in combined
Balance_shared(h, balance) == [h |-> h, ref |-> balance]

\* Balance(balance.balance, balance.usd_value): a new Balance object with
\* the fields of the operand's
Balance_copy(h, balance) ==
    New(h, Balance(h[balance].balance, h[balance].usd_value))

\* __add__, its loop over self.items()
RECURSIVE TokenBalances_add_self(_, _, _, _)
TokenBalances_add_self(h, combined, self, todo) ==
    IF todo = {} THEN h
    ELSE LET token == CHOOSE x \in todo : TRUE
             balance == h[self][token]
             copy == Balance_copy(h, balance)
         IN  IF Balance_bool(h[balance])
             THEN TokenBalances_add_self(
                      StoreItem(copy.h, combined, token, copy.ref),
                      combined, self, todo \ {token})
             ELSE TokenBalances_add_self(h, combined, self, todo \ {token})

\* __add__, its loop over other.items()
RECURSIVE TokenBalances_add_other(_, _, _, _)
TokenBalances_add_other(h, combined, other, todo) ==
    IF todo = {} THEN HOk(h, combined)
    ELSE LET token == CHOOSE x \in todo : TRUE
             balance == h[other][token]
             old == getattr_nochecksum(h[combined], token)
             sum == New(h, Balance_add(old.val, h[balance]))
             copy == Balance_copy(h, balance)
         IN  IF ~Balance_bool(h[balance])
             THEN TokenBalances_add_other(h, combined, other, todo \ {token})
             ELSE IF token \in DOMAIN h[combined]
             THEN IF ~old.ok THEN HErr(h, old.err)
                  ELSE TokenBalances_add_other(
                           StoreItem(sum.h, combined, token, sum.ref),
                           combined, other, todo \ {token})
             ELSE TokenBalances_add_other(
                      StoreItem(copy.h, combined, token, copy.ref),
                      combined, other, todo \ {token})

H_TokenBalances_add(h, self, other) ==
    LET combined == New(h, EmptyDict)
        h1 == TokenBalances_add_self(combined.h, combined.ref, self,
                                     DOMAIN h[self])
    IN  TokenBalances_add_other(h1, combined.ref, other, DOMAIN h[other])

\* __init__, its loop over the seed: self[token] += balance, on the fresh
\* Balance() that the read of the missing key inserts
RECURSIVE TokenBalances_init_loop(_, _, _, _)
TokenBalances_init_loop(h, self, seed, todo) ==
    IF todo = {} THEN h
    ELSE LET token == CHOOSE x \in todo : TRUE
             sum == New(h, Balance_add(Balance0, h[h[seed][token]]))
         IN  TokenBalances_init_loop(StoreItem(sum.h, self, token, sum.ref),
                                     self, seed, todo \ {token})

\* __sub__, its loop over other.items(): subtracted[token] -= balance
RECURSIVE TokenBalances_sub_loop(_, _, _, _)
TokenBalances_sub_loop(h, subtracted, other, todo) ==
    IF todo = {} THEN h
    ELSE LET token == CHOOSE x \in todo : TRUE
             old == IF token \in DOMAIN h[subtracted]
                    THEN h[h[subtracted][token]] ELSE Balance0
             diff == New(h, Balance_sub(old, h[h[other][token]]))
         IN  TokenBalances_sub_loop(
                 StoreItem(diff.h, subtracted, token, diff.ref),
                 subtracted, other, todo \ {token})

\* __sub__: subtracted = TokenBalances(self), the loop, and the closing
\* loop, which deletes the first zero entry it meets, and the next step of
\* the iterator raises RuntimeError
H_TokenBalances_sub(h, self, other) ==
    LET subtracted == New(h, EmptyDict)
        h0 == TokenBalances_init_loop(subtracted.h, subtracted.ref, self,
                                      DOMAIN h[self])
        h1 == TokenBalances_sub_loop(h0, subtracted.ref, other,
                                     DOMAIN h[other])
    IN  IF \E t \in DOMAIN h1[subtracted.ref] :
               ~Balance_bool(h1[h1[subtracted.ref][t]])
        THEN HErr(h1, "RuntimeError")
        ELSE HOk(h1, subtracted.ref)

\* a new, empty container
NewDict(h) == HOk(Append(h, EmptyDict), Len(h) + 1)

\* the read self[key] of a default dict: a missing key is inserted with a
\* fresh, empty container
Missing(h, self, key) ==
    IF key \in DOMAIN h[self] THEN h
    ELSE StoreItem(Append(h, EmptyDict), self, key, Len(h) + 1)

\* self[key] = r, for an r that was returned; the exception, for an r that
\* was raised
StoreResult(r, self, key) ==
    IF ~r.ok THEN HErr(r.h, r.err)
    ELSE HOk(StoreItem(r.h, self, key, r.ref), self)

(* WalletBalances on the heap (typing.py 141-207) *)

H_WalletBalances_bool(h, self) ==
    \E k \in DOMAIN h[self] : H_TokenBalances_bool(h, h[self][k])

\* self[category] += tbalances: __getitem__ (the key validated, a missing key
\* inserted with a fresh
\* TokenBalances()), TokenBalances.__add__, then __setitem__
WalletBalances_iadd(h, self, category, tbalances) ==
    IF ~validateitem(category) THEN HErr(h, "KeyError")
    ELSE StoreResult(Plus(Missing(h, self, category),
                          Obj("TokenBalances", Missing(h, self, category)[self][category]),
                          Obj("TokenBalances", tbalances)),
                     self, category)

\* __add__, either of its loops, over self.items() and over
\* other.items(); r is combined and the heap so far, or the exception
RECURSIVE WalletBalances_add_loop(_, _, _)
WalletBalances_add_loop(r, from, todo) ==
    IF ~r.ok \/ todo = {} THEN r
    ELSE LET category == CHOOSE x \in todo : TRUE
         IN  IF ~H_TokenBalances_bool(r.h, r.h[from][category])
             THEN WalletBalances_add_loop(r, from, todo \ {category})
             ELSE WalletBalances_add_loop(
                      WalletBalances_iadd(r.h, r.ref, category, r.h[from][category]),
                      from, todo \ {category})

\* __add__: combined = WalletBalances(), then the loop over self.items() and
\* the loop over other.items()
H_WalletBalances_add(h, self, other) ==
    WalletBalances_add_loop(WalletBalances_add_loop(NewDict(h), self, DOMAIN h[self]),
        other, DOMAIN h[other])

\* __init__, its loop over the seed: self[category] += tbalances
RECURSIVE WalletBalances_init_loop(_, _, _)
WalletBalances_init_loop(r, seed, todo) ==
    IF ~r.ok \/ todo = {} THEN r
    ELSE LET category == CHOOSE x \in todo : TRUE
         IN  WalletBalances_init_loop(
                 WalletBalances_iadd(r.h, r.ref, category, r.h[seed][category]),
                 seed, todo \ {category})

\* __sub__, its loop over other.items(): subtracted[category] -= tbalances;
\* then its closing loop, which deletes the first falsy entry it meets,
\* and the next step of the iterator raises RuntimeError
RECURSIVE WalletBalances_sub_loop(_, _, _)
WalletBalances_sub_loop(r, other, todo) ==
    IF ~r.ok THEN r
    ELSE IF todo = {}
    THEN IF \E k \in DOMAIN r.h[r.ref] : ~H_TokenBalances_bool(r.h, r.h[r.ref][k])
         THEN HErr(r.h, "RuntimeError")
         ELSE r
    ELSE LET category == CHOOSE x \in todo : TRUE
         IN  IF ~validateitem(category) THEN HErr(r.h, "KeyError")
             ELSE WalletBalances_sub_loop(
                      StoreResult(Minus(Missing(r.h, r.ref, category),
                                       Obj("TokenBalances", Missing(r.h, r.ref, category)[r.ref][category]),
                                       Obj("TokenBalances", r.h[other][category])),
                                  r.ref, category),
                      other, todo \ {category})

\* __sub__: subtracted = WalletBalances(self), then the loops
H_WalletBalances_sub(h, self, other) ==
    WalletBalances_sub_loop(WalletBalances_init_loop(NewDict(h), self, DOMAIN h[self]),
        other, DOMAIN h[other])

(* PortfolioBalances on the heap (typing.py 214-269) *)

\* __add__, either of its loops, over self.items() and over
\* other.items(): combined.__getattr_nochecksum(wallet) is the mangled
\* _PortfolioBalances__getattr_nochecksum; r is combined and the heap so far, or
\* the exception
RECURSIVE PortfolioBalances_add_loop(_, _, _)
PortfolioBalances_add_loop(r, from, todo) ==
    IF ~r.ok \/ todo = {} THEN r
    ELSE LET wallet == CHOOSE x \in todo : TRUE
             old == getattr_nochecksum(r.h[r.ref], wallet)
         IN  IF ~H_WalletBalances_bool(r.h, r.h[from][wallet])
             THEN PortfolioBalances_add_loop(r, from, todo \ {wallet})
             ELSE IF ~old.ok THEN HErr(r.h, old.err)
             ELSE PortfolioBalances_add_loop(
                      StoreResult(Plus(r.h, Obj("WalletBalances", old.val),
                                       Obj("WalletBalances", r.h[from][wallet])),
                                  r.ref, wallet),
                      from, todo \ {wallet})

\* __add__: combined = PortfolioBalances(), then the loop over self.items() and
\* the loop over other.items()
H_PortfolioBalances_add(h, self, other) ==
    PortfolioBalances_add_loop(PortfolioBalances_add_loop(NewDict(h), self, DOMAIN h[self]),
        other, DOMAIN h[other])

\* __init__, its loop over the seed: self[wallet] += wbalances, that is
\* __getitem__ (a missing key inserted with a fresh WalletBalances()),
\* WalletBalances.__add__, then __setitem__
RECURSIVE PortfolioBalances_init_loop(_, _, _)
PortfolioBalances_init_loop(r, seed, todo) ==
    IF ~r.ok \/ todo = {} THEN r
    ELSE LET wallet == CHOOSE x \in todo : TRUE
         IN  PortfolioBalances_init_loop(
                 StoreResult(Plus(Missing(r.h, r.ref, wallet),
                                  Obj("WalletBalances", Missing(r.h, r.ref, wallet)[r.ref][wallet]),
                                  Obj("WalletBalances", r.h[seed][wallet])),
                             r.ref, wallet),
                 seed, todo \ {wallet})

\* __sub__, its loop over other.items(): subtracted[wallet] -= wbalances;
\* then its closing loop, which deletes the first falsy entry it meets,
\* and the next step of the iterator raises RuntimeError
RECURSIVE PortfolioBalances_sub_loop(_, _, _)
PortfolioBalances_sub_loop(r, other, todo) ==
    IF ~r.ok THEN r
    ELSE IF todo = {}
    THEN IF \E k \in DOMAIN r.h[r.ref] : ~H_WalletBalances_bool(r.h, r.h[r.ref][k])
         THEN HErr(r.h, "RuntimeError")
         ELSE r
    ELSE LET wallet == CHOOSE x \in todo : TRUE
         IN  PortfolioBalances_sub_loop(
                 StoreResult(Minus(Missing(r.h, r.ref, wallet),
                                  Obj("WalletBalances", Missing(r.h, r.ref, wallet)[r.ref][wallet]),
                                  Obj("WalletBalances", r.h[other][wallet])),
                             r.ref, wallet),
                 other, todo \ {wallet})

\* __sub__: subtracted = PortfolioBalances(self), then the loops
H_PortfolioBalances_sub(h, self, other) ==
    PortfolioBalances_sub_loop(PortfolioBalances_init_loop(NewDict(h), self, DOMAIN h[self]),
        other, DOMAIN h[other])

(* WalletBalancesRaw on the heap (typing.py 274-322) *)

H_WalletBalancesRaw_bool(h, self) ==
    \E k \in DOMAIN h[self] : H_TokenBalances_bool(h, h[self][k])

\* __add__, either of its loops, over self.items() and over
\* other.items(): combined.__getattr_nochecksum(wallet) is the mangled
\* _WalletBalancesRaw__getattr_nochecksum; r is combined and the heap so far, or
\* the exception
RECURSIVE WalletBalancesRaw_add_loop(_, _, _)
WalletBalancesRaw_add_loop(r, from, todo) ==
    IF ~r.ok \/ todo = {} THEN r
    ELSE LET wallet == CHOOSE x \in todo : TRUE
             old == getattr_nochecksum(r.h[r.ref], wallet)
         IN  IF ~H_TokenBalances_bool(r.h, r.h[from][wallet])
             THEN WalletBalancesRaw_add_loop(r, from, todo \ {wallet})
             ELSE IF ~old.ok THEN HErr(r.h, old.err)
             ELSE WalletBalancesRaw_add_loop(
                      StoreResult(Plus(r.h, Obj("TokenBalances", old.val),
                                       Obj("TokenBalances", r.h[from][wallet])),
                                  r.ref, wallet),
                      from, todo \ {wallet})

\* __add__: combined = WalletBalancesRaw(), then the loop over self.items() and
\* the loop over other.items()
H_WalletBalancesRaw_add(h, self, other) ==
    WalletBalancesRaw_add_loop(WalletBalancesRaw_add_loop(NewDict(h), self, DOMAIN h[self]),
        other, DOMAIN h[other])

\* __init__, its loop over the seed: self[wallet] += tbalances, that is
\* __getitem__ (a missing key inserted with a fresh TokenBalances()),
\* TokenBalances.__add__, then __setitem__
RECURSIVE WalletBalancesRaw_init_loop(_, _, _)
WalletBalancesRaw_init_loop(r, seed, todo) ==
    IF ~r.ok \/ todo = {} THEN r
    ELSE LET wallet == CHOOSE x \in todo : TRUE
         IN  WalletBalancesRaw_init_loop(
                 StoreResult(Plus(Missing(r.h, r.ref, wallet),
                                  Obj("TokenBalances", Missing(r.h, r.ref, wallet)[r.ref][wallet]),
                                  Obj("TokenBalances", r.h[seed][wallet])),
                             r.ref, wallet),
                 seed, todo \ {wallet})

\* __sub__, its loop over other.items(): subtracted[wallet] -= tbalances,
\* for the tbalances that are truthy;
\* then its closing loop, which deletes the first falsy entry it meets,
\* and the next step of the iterator raises RuntimeError
RECURSIVE WalletBalancesRaw_sub_loop(_, _, _)
WalletBalancesRaw_sub_loop(r, other, todo) ==
    IF ~r.ok THEN r
    ELSE IF todo = {}
    THEN IF \E k \in DOMAIN r.h[r.ref] : ~H_TokenBalances_bool(r.h, r.h[r.ref][k])
         THEN HErr(r.h, "RuntimeError")
         ELSE r
    ELSE LET wallet == CHOOSE x \in todo : TRUE
         IN  IF ~H_TokenBalances_bool(r.h, r.h[other][wallet])
             THEN WalletBalancesRaw_sub_loop(r, other, todo \ {wallet})
             ELSE WalletBalancesRaw_sub_loop(
                      StoreResult(Minus(Missing(r.h, r.ref, wallet),
                                       Obj("TokenBalances", Missing(r.h, r.ref, wallet)[r.ref][wallet]),
                                       Obj("TokenBalances", r.h[other][wallet])),
                                  r.ref, wallet),
                      other, todo \ {wallet})

\* __sub__: subtracted = WalletBalancesRaw(self), then the loops
H_WalletBalancesRaw_sub(h, self, other) ==
    WalletBalancesRaw_sub_loop(WalletBalancesRaw_init_loop(NewDict(h), self, DOMAIN h[self]),
        other, DOMAIN h[other])

(* PortfolioBalancesByCategory on the heap (typing.py 326-385) *)

\* self[label] += wtbalances: __getitem__ (a missing key inserted with a fresh
\* WalletBalancesRaw()), WalletBalancesRaw.__add__, then __setitem__
PortfolioBalancesByCategory_iadd(h, self, label, wtbalances) ==
    StoreResult(Plus(Missing(h, self, label),
                     Obj("WalletBalancesRaw", Missing(h, self, label)[self][label]),
                     Obj("WalletBalancesRaw", wtbalances)),
                self, label)

\* __add__, either of its loops, over self.items() and over
\* other.items(); r is combined and the heap so far, or the exception
RECURSIVE PortfolioBalancesByCategory_add_loop(_, _, _)
PortfolioBalancesByCategory_add_loop(r, from, todo) ==
    IF ~r.ok \/ todo = {} THEN r
    ELSE LET label == CHOOSE x \in todo : TRUE
         IN  IF ~H_WalletBalancesRaw_bool(r.h, r.h[from][label])
             THEN PortfolioBalancesByCategory_add_loop(r, from, todo \ {label})
             ELSE PortfolioBalancesByCategory_add_loop(
                      PortfolioBalancesByCategory_iadd(r.h, r.ref, label, r.h[from][label]),
                      from, todo \ {label})

\* __add__: combined = PortfolioBalancesByCategory(), then the loop over self.items() and
\* the loop over other.items()
H_PortfolioBalancesByCategory_add(h, self, other) ==
    PortfolioBalancesByCategory_add_loop(PortfolioBalancesByCategory_add_loop(NewDict(h), self, DOMAIN h[self]),
        other, DOMAIN h[other])

\* __init__, its loop over the seed: self[label] += wtbalances
RECURSIVE PortfolioBalancesByCategory_init_loop(_, _, _)
PortfolioBalancesByCategory_init_loop(r, seed, todo) ==
    IF ~r.ok \/ todo = {} THEN r
    ELSE LET label == CHOOSE x \in todo : TRUE
         IN  PortfolioBalancesByCategory_init_loop(
                 PortfolioBalancesByCategory_iadd(r.h, r.ref, label, r.h[seed][label]),
                 seed, todo \ {label})

\* __sub__, its loop over other.items(): subtracted[label] -= wtbalances;
\* then its closing loop, which deletes the first falsy entry it meets,
\* and the next step of the iterator raises RuntimeError
RECURSIVE PortfolioBalancesByCategory_sub_loop(_, _, _)
PortfolioBalancesByCategory_sub_loop(r, other, todo) ==
    IF ~r.ok THEN r
    ELSE IF todo = {}
    THEN IF \E k \in DOMAIN r.h[r.ref] : ~H_WalletBalancesRaw_bool(r.h, r.h[r.ref][k])
         THEN HErr(r.h, "RuntimeError")
         ELSE r
    ELSE LET label == CHOOSE x \in todo : TRUE
         IN  PortfolioBalancesByCategory_sub_loop(
                 StoreResult(Minus(Missing(r.h, r.ref, label),
                                  Obj("WalletBalancesRaw", Missing(r.h, r.ref, label)[r.ref][label]),
                                  Obj("WalletBalancesRaw", r.h[other][label])),
                             r.ref, label),
                 other, todo \ {label})

\* __sub__: subtracted = PortfolioBalancesByCategory(self), then the loops
H_PortfolioBalancesByCategory_sub(h, self, other) ==
    PortfolioBalancesByCategory_sub_loop(PortfolioBalancesByCategory_init_loop(NewDict(h), self, DOMAIN h[self]),
        other, DOMAIN h[other])

---------------------------------------------------------------------------
(* The operators + and - on container objects, and on the literal 0.  An   *)
(* operand is its class and its reference; the literal is of class int.    *)

\* the levels of dict above the Balances
Depth(cls) ==
    CASE cls = "TokenBalances" -> 1
      [] cls \in {"WalletBalances", "WalletBalancesRaw"} -> 2
      [] OTHER -> 3

Literal(n) == [cls |-> "int", ref |-> 0, val |-> n]

\* bool(c)
Container_bool(h, self) ==
    CASE self.cls = "TokenBalances" -> H_TokenBalances_bool(h, self.ref)
      [] self.cls = "WalletBalances" -> H_WalletBalances_bool(h, self.ref)
      [] self.cls = "PortfolioBalances" ->
             \E k \in DOMAIN h[self.ref] :
                H_WalletBalances_bool(h, h[self.ref][k])
      [] self.cls = "WalletBalancesRaw" -> H_WalletBalancesRaw_bool(h, self.ref)
      [] OTHER -> \E k \in DOMAIN h[self.ref] :
                     H_WalletBalancesRaw_bool(h, h[self.ref][k])

\* self.__add__(other): the assert on other's class opens every __add__
Container_add(h, self, other) ==
    IF other.cls # self.cls THEN HErr(h, "AssertionError")
    ELSE CASE self.cls = "TokenBalances" ->
                  H_TokenBalances_add(h, self.ref, other.ref)
           [] self.cls = "WalletBalances" ->
                  H_WalletBalances_add(h, self.ref, other.ref)
           [] self.cls = "PortfolioBalances" ->
                  H_PortfolioBalances_add(h, self.ref, other.ref)
           [] self.cls = "WalletBalancesRaw" ->
                  H_WalletBalancesRaw_add(h, self.ref, other.ref)
           [] self.cls = "PortfolioBalancesByCategory" ->
                  H_PortfolioBalancesByCategory_add(h, self.ref, other.ref)

\* _SummableNonNumeric.__radd__: other + self, once other's own __add__
\* gave up; for other == 0 it returns self, the object itself
SummableNonNumeric_radd(h, self, other) ==
    IF other.cls = "int" /\ other.val = 0 THEN HOk(h, self.ref)
    ELSE Container_add(h, self, other)

\* x + y: int.__add__ does not know the containers, so y.__radd__ is tried
Plus(h, x, y) ==
    IF x.cls = "int" THEN SummableNonNumeric_radd(h, y, x)
    ELSE Container_add(h, x, y)

\* x - y, for a container x: x.__sub__(y), and the assert on y's class
\* opens every __sub__
Minus(h, self, other) ==
    IF other.cls # self.cls THEN HErr(h, "AssertionError")
    ELSE CASE self.cls = "TokenBalances" ->
                  H_TokenBalances_sub(h, self.ref, other.ref)
           [] self.cls = "WalletBalances" ->
                  H_WalletBalances_sub(h, self.ref, other.ref)
           [] self.cls = "PortfolioBalances" ->
                  H_PortfolioBalances_sub(h, self.ref, other.ref)
           [] self.cls = "WalletBalancesRaw" ->
                  H_WalletBalancesRaw_sub(h, self.ref, other.ref)
           [] self.cls = "PortfolioBalancesByCategory" ->
                  H_PortfolioBalancesByCategory_sub(h, self.ref, other.ref)

\* self: the operands of the operators
RECURSIVE Operands(_)
Operands(cls) ==
    CASE cls = "TokenBalances" -> TokenBalancesOver(1 .. NumKeys)
      [] cls = "WalletBalances" -> WalletBalancesAll
      [] cls = "PortfolioBalances" ->
             UNION {[d -> {EmptyDict,
                           [c \in {"assets"} |-> [t \in {1} |-> Balance(5, 50)]],
                           [c \in {"assets", "debt"} |->
                               IF c = "assets" THEN [t \in {1} |-> Balance(5, 50)]
                               ELSE [t \in {2} |-> Balance(-5, -50)]],
                           [c \in {"debt"} |-> [t \in {1} |-> Balance0]]}] :
                       d \in SUBSET Wallets}
      [] cls = "WalletBalancesRaw" ->
             UNION {[d -> {EmptyDict, [t \in {1} |-> Balance(5, 50)],
                           [t \in {1} |-> Balance0]}] : d \in SUBSET Wallets}
      [] OTHER -> UNION {[d -> Operands("WalletBalancesRaw")] :
                            d \in SUBSET Categories}

\* other
OtherOperands(cls) ==
    IF cls = "PortfolioBalancesByCategory"
    THEN {EmptyDict,
          [c \in {"assets"} |-> [w \in {1} |-> [t \in {1} |-> Balance(5, 50)]]],
          [c \in {"debt"} |-> [w \in {1} |-> [t \in {1} |-> Balance0]]],
          [c \in {"debt"} |-> EmptyDict]}
    ELSE Operands(cls)

\* rhs is other; op is the operator applied and whether its result was
\* changed afterwards; res is the outcome with the heap
ObjInit ==
    /\ SnapInit
    /\ \E cls \in {"TokenBalances", "WalletBalances", "PortfolioBalances",
                   "PortfolioBalancesByCategory"} :
         \E a \in Operands(cls), b \in OtherOperands(cls) :
            LET self == Build(<<>>, a, Depth(cls))
                other == Build(self.h, b, Depth(cls))
            IN  /\ lhs = [cls |-> cls, ref |-> self.ref, val |-> a]
                /\ rhs = [cls |-> cls, ref |-> other.ref, val |-> b]
                /\ res = HOk(other.h, 0)
    /\ op = [name |-> "none", changed |-> FALSE]

\* r = c1 + c2
BinaryAdd ==
    /\ op.name = "none"
    /\ op' = [name |-> "add", changed |-> FALSE]
    /\ res' = Plus(res.h, lhs, rhs)
    /\ UNCHANGED <<lhs, rhs, snapVars>>

\* r = c1 - c2
BinarySub ==
    /\ op.name = "none"
    /\ op' = [name |-> "sub", changed |-> FALSE]
    /\ res' = Minus(res.h, lhs, rhs)
    /\ UNCHANGED <<lhs, rhs, snapVars>>

\* r = c + 0
AddLiteral0 ==
    /\ op.name = "none"
    /\ op' = [name |-> "add0", changed |-> FALSE]
    /\ res' = Plus(res.h, lhs, Literal(0))
    /\ UNCHANGED <<lhs, rhs, snapVars>>

\* r = 0 + c
RAddLiteral0 ==
    /\ op.name = "none"
    /\ op' = [name |-> "radd0", changed |-> FALSE]
    /\ res' = Plus(res.h, Literal(0), lhs)
    /\ UNCHANGED <<lhs, rhs, snapVars>>

\* r = c - 0
SubLiteral0 ==
    /\ op.name = "none"
    /\ op' = [name |-> "sub0", changed |-> FALSE]
    /\ res' = Minus(res.h, lhs, Literal(0))
    /\ UNCHANGED <<lhs, rhs, snapVars>>

\* r = sum([c1, c2]): the fold (0 + c1) + c2
SumFromZero ==
    /\ op.name = "none"
    /\ op' = [name |-> "sum", changed |-> FALSE]
    /\ \E r \in {Plus(res.h, Literal(0), lhs)} :
          res' = IF ~r.ok THEN r ELSE Plus(r.h, Obj(lhs.cls, r.ref), rhs)
    /\ UNCHANGED <<lhs, rhs, snapVars>>

\* the objects of r, by their level under r: level Depth is the Balances
RECURSIVE Level(_, _, _)
Level(h, refs, n) ==
    IF n = 0 THEN refs
    ELSE Level(h, UNION {{h[r][k] : k \in DOMAIN h[r]} : r \in refs}, n - 1)

\* a later change to r: a field of a Balance inside r is assigned
ChangeBalance ==
    /\ op.name # "none" /\ ~op.changed /\ res.ok
    /\ \E ref \in Level(res.h, {res.ref}, Depth(lhs.cls)) :
          res' = [res EXCEPT !.h[ref] = Balance(7, 70)]
    /\ op' = [op EXCEPT !.changed = TRUE]
    /\ UNCHANGED <<lhs, rhs, snapVars>>

\* a later change to r: an entry of r, or of a container inside r, is
\* deleted
DeleteEntry ==
    /\ op.name # "none" /\ ~op.changed /\ res.ok
    /\ \E n \in 0 .. Depth(lhs.cls) - 1 :
         \E ref \in Level(res.h, {res.ref}, n) :
            \E k \in DOMAIN res.h[ref] :
               res' = [res EXCEPT !.h[ref] =
                          [x \in DOMAIN res.h[ref] \ {k} |-> res.h[ref][x]]]
    /\ op' = [op EXCEPT !.changed = TRUE]
    /\ UNCHANGED <<lhs, rhs, snapVars>>

ObjNext ==
    \/ BinaryAdd
    \/ BinarySub
    \/ AddLiteral0
    \/ RAddLiteral0
    \/ SubLiteral0
    \/ SumFromZero
    \/ ChangeBalance
    \/ DeleteEntry

SpecObjects == ObjInit /\ [][ObjNext]_vars

---------------------------------------------------------------------------
(* The protocol classes (lending/maker.py, staking/convex.py) and the      *)
(* sync/async method pairs of the exposed classes (tests/                  *)
(* test_completeness.py).  Raw chain amounts are counted in whole tokens,  *)
(* so that ink / 1e18, art * rate / 1e45 and balance / scale are the       *)
(* amounts themselves.                                                     *)

\* the largest raw amount a contract read answers
MaxRaw == 1

\* contract_creation_block(convex_locker_v2)
locker_deploy_block == 2

\* a dict literal: an object of class dict
PlainDict(items) == [cls |-> "dict", val |-> items]

\* {token: {'balance': balance, 'usd value': usd}}
Position(token, balance, usd) ==
    PlainDict([t \in {token} |->
                  PlainDict([k \in {"balance", "usd value"} |->
                                IF k = "balance" THEN balance ELSE usd])])

\* Maker._collateral_async
Maker_collateral_async(ink, price) ==
    IF ink # 0
    THEN Position(yfi, ink, IF ink > 0 THEN ink * price ELSE 0)
    ELSE PlainDict(EmptyDict)

\* Maker._debt_async
Maker_debt_async(art, rate) ==
    LET debt == art * rate
    IN  Position(dai, debt, debt)

\* Convex.balances_async
Convex_balances_async(b, balance, price) ==
    IF Truthy(b) /\ b.n < locker_deploy_block THEN PlainDict(EmptyDict)
    ELSE IF balance # 0 THEN Position(cvx, balance, balance * price)
    ELSE PlainDict(EmptyDict)

\* the public method of a protocol class and the coroutine function it
\* hands its arguments to
ProtocolMethods ==
    {[cls |-> "Maker", method |-> "collateral", inner |-> "_collateral_async"],
     [cls |-> "Maker", method |-> "debt", inner |-> "_debt_async"],
     [cls |-> "Convex", method |-> "balances", inner |-> "balances_async"]}

\* what the coroutine of a protocol method returns for the chain reads
Returned_by(m, chain) ==
    CASE m.inner = "_collateral_async" ->
             Maker_collateral_async(chain.ink, chain.price)
      [] m.inner = "_debt_async" -> Maker_debt_async(chain.art, chain.rate)
      [] m.inner = "balances_async" ->
             Convex_balances_async(chain.block, chain.balance, chain.price)

\* the names in cls.__dict__ of an exposed class
ClassDict(cls) ==
    CASE cls = "PortfolioAddress" ->
             {"__init__", "asynchronous", "load_prices", "__str__",
              "__repr__", "__eq__", "__hash__",
              "describe", "_describe_async", "assets", "_assets_async",
              "debt", "_debt_async",
              "external_balances", "_external_balances_async",
              "balances", "_balances_async",
              "eth_balance", "_eth_balance_async",
              "token_balances", "_token_balances_async",
              "collateral", "_collateral_async",
              "staking", "_staking_async", "all", "_all_async"}
      [] cls = "Maker" ->
             {"__init__", "collateral", "_collateral_async", "debt",
              "_debt_async", "_proxy", "_cdp", "_urn"}
      [] cls = "Convex" -> {"__init__", "balances", "balances_async"}

exposed_classes == {"PortfolioAddress", "Maker", "Convex"}

\* functions: (cls, name) for the Callable entries of the class dicts; the
\* properties asynchronous and load_prices are not Callable
functions ==
    UNION {{<<cls, name>> :
               name \in ClassDict(cls) \ {"asynchronous", "load_prices"}} :
              cls \in exposed_classes}

\* the functions for which not method_name.startswith("_")
user_facing_functions ==
    {f \in functions : ~(Len(f[2]) >= 1 /\ SubSeq(f[2], 1, 1) = "_")}

\* the functions for which method_name.endswith("async")
internal_async_versions_of_user_facing_functions ==
    {f \in functions :
        /\ Len(f[2]) >= 5
        /\ SubSeq(f[2], Len(f[2]) - 4, Len(f[2])) = "async"}

\* assert "_" + method_name + "_async" in cls.__dict__
test_user_facing_function_has_async_counterpart(cls, method_name) ==
    ("_" \o method_name \o "_async") \in ClassDict(cls)

\* assert method_name[1:-6] in cls.__dict__
test_async_internal_version_of_user_facing_fn_has_sync_counterpart(cls, method_name) ==
    SubSeq(method_name, 2, Len(method_name) - 6) \in ClassDict(cls)

\* lhs is the chain reads and the instance's asynchronous flag; rhs is the
\* call or the test case; res is its outcome
ProtoInit ==
    /\ SnapInit
    /\ \E ink \in 0 .. MaxRaw, art \in 0 .. MaxRaw, rate \in 1 .. 2,
          balance \in 0 .. MaxRaw,
          b \in {NoBlock, [kind |-> "int", n |-> 1], [kind |-> "int", n |-> 3]},
          asynchronous \in BOOLEAN :
          lhs = [ink |-> ink, art |-> art, rate |-> rate, balance |-> balance,
                 block |-> b, price |-> 3, asynchronous |-> asynchronous]
    /\ rhs = [cls |-> "none", method |-> "none", inner |-> "none"]
    /\ op = [name |-> "none", summed |-> FALSE]
    /\ res = [ok |-> TRUE, err |-> "none", val |-> PlainDict(EmptyDict),
              awaited_by |-> "none"]

\* a public method of a protocol class is called: it hands over to its
\* coroutine function, which the wrapper awaits for a synchronous instance
\* and the caller awaits for an asynchronous one
Call(m) ==
    /\ op.name = "none"
    /\ op' = [name |-> "call", summed |-> FALSE]
    /\ rhs' = m
    /\ res' = [ok |-> TRUE, err |-> "none", val |-> Returned_by(m, lhs),
               awaited_by |-> IF lhs.asynchronous THEN "caller" ELSE "wrapper"]
    /\ UNCHANGED <<lhs, snapVars>>

\* the orchestrator adds what the protocol returned to a TokenBalances:
\* TokenBalances.__add__, whose assert wants a TokenBalances
SumProtocol ==
    /\ op.name = "call" /\ ~op.summed
    /\ op' = [op EXCEPT !.summed = TRUE]
    /\ res' = IF res.val.cls # "TokenBalances"
              THEN [res EXCEPT !.ok = FALSE, !.err = "AssertionError"]
              ELSE LET sum == TokenBalances_add(EmptyDict, res.val.val)
                   IN  [res EXCEPT !.ok = sum.ok, !.err = sum.err,
                                   !.val = [cls |-> "TokenBalances",
                                            val |-> sum.val]]
    /\ UNCHANGED <<lhs, rhs, snapVars>>

TestUserFacing(f) ==
    /\ op.name = "none"
    /\ op' = [name |-> "test_user_facing", summed |-> FALSE]
    /\ rhs' = [cls |-> f[1], method |-> f[2], inner |-> "none"]
    /\ res' = [res EXCEPT
                 !.ok = test_user_facing_function_has_async_counterpart(
                            f[1], f[2]),
                 !.err = IF test_user_facing_function_has_async_counterpart(
                                f[1], f[2])
                         THEN "none" ELSE "AssertionError"]
    /\ UNCHANGED <<lhs, snapVars>>

TestAsyncInternal(f) ==
    /\ op.name = "none"
    /\ op' = [name |-> "test_async_internal", summed |-> FALSE]
    /\ rhs' = [cls |-> f[1], method |-> f[2], inner |-> "none"]
    /\ res' = [res EXCEPT
                 !.ok = test_async_internal_version_of_user_facing_fn_has_sync_counterpart(
                            f[1], f[2]),
                 !.err = IF test_async_internal_version_of_user_facing_fn_has_sync_counterpart(
                                f[1], f[2])
                         THEN "none" ELSE "AssertionError"]
    /\ UNCHANGED <<lhs, snapVars>>

ProtoNext ==
    \/ \E m \in ProtocolMethods : Call(m)
    \/ SumProtocol
    \/ \E f \in user_facing_functions : TestUserFacing(f)
    \/ \E f \in internal_async_versions_of_user_facing_functions :
          TestAsyncInternal(f)

SpecProtocols == ProtoInit /\ [][ProtoNext]_vars

---------------------------------------------------------------------------
(* Reads of a WalletBalances (typing.py 157-169, 197-199).  A read yields  *)
(* what it returned and the container after it.                            *)

\* sum(balance.usd for balance in self.values())
RECURSIVE TokenBalances_sum_usd(_)
TokenBalances_sum_usd(self) ==
    IF DOMAIN self = {} THEN 0
    ELSE LET token == CHOOSE x \in DOMAIN self : TRUE
         IN  self[token].usd_value
                + TokenBalances_sum_usd(
                      [x \in DOMAIN self \ {token} |-> self[x]])

\* the property assets: self['assets']
WalletBalances_assets(self) == WalletBalances_getitem(self, "assets")

\* the property debt: self['debt']
WalletBalances_debt(self) == WalletBalances_getitem(self, "debt")

\* sum_usd: self.assets.sum_usd() - self.debt.sum_usd(), the container
\* read twice
WalletBalances_sum_usd(self) ==
    LET a == WalletBalances_assets(self)
        d == WalletBalances_debt(a.self)
    IN  [ok |-> TRUE, err |-> "none", self |-> d.self,
         val |-> TokenBalances_sum_usd(a.val) - TokenBalances_sum_usd(d.val)]

\* __bool__: any(self.values())
WalletBalances_bool(self) ==
    [ok |-> TRUE, err |-> "none", self |-> self,
     val |-> \E c \in DOMAIN self : TokenBalances_bool(self[c])]

\* lhs is the container, rhs an untouched copy of it, res what the last
\* read returned
ReadsInit ==
    /\ SnapInit
    /\ lhs \in WalletBalancesAll
    /\ rhs = [untouched |-> lhs]
    /\ op = "none"
    /\ res = Ok(EmptyDict)

\* balances[key]
ReadItem(key) ==
    /\ op' = "getitem"
    /\ res' = [ok |-> WalletBalances_getitem(lhs, key).ok,
               val |-> WalletBalances_getitem(lhs, key).val,
               err |-> WalletBalances_getitem(lhs, key).err]
    /\ lhs' = WalletBalances_getitem(lhs, key).self
    /\ UNCHANGED <<rhs, snapVars>>

\* balances.assets
ReadAssets ==
    /\ op' = "assets"
    /\ res' = [ok |-> TRUE, val |-> WalletBalances_assets(lhs).val,
               err |-> "none"]
    /\ lhs' = WalletBalances_assets(lhs).self
    /\ UNCHANGED <<rhs, snapVars>>

\* balances.debt
ReadDebt ==
    /\ op' = "debt"
    /\ res' = [ok |-> TRUE, val |-> WalletBalances_debt(lhs).val,
               err |-> "none"]
    /\ lhs' = WalletBalances_debt(lhs).self
    /\ UNCHANGED <<rhs, snapVars>>

\* balances.sum_usd()
ReadSumUsd ==
    /\ op' = "sum_usd"
    /\ res' = [ok |-> TRUE, val |-> WalletBalances_sum_usd(lhs).val,
               err |-> "none"]
    /\ lhs' = WalletBalances_sum_usd(lhs).self
    /\ UNCHANGED <<rhs, snapVars>>

\* bool(balances)
ReadBool ==
    /\ op' = "bool"
    /\ res' = [ok |-> TRUE, val |-> WalletBalances_bool(lhs).val,
               err |-> "none"]
    /\ lhs' = WalletBalances_bool(lhs).self
    /\ UNCHANGED <<rhs, snapVars>>

ReadsNext ==
    \/ \E key \in CategoryKeys : ReadItem(key)
    \/ ReadAssets
    \/ ReadDebt
    \/ ReadSumUsd
    \/ ReadBool

SpecReads == ReadsInit /\ [][ReadsNext]_vars

---------------------------------------------------------------------------
(* Properties of the snapshot, checked under Spec.                         *)

\* describe has delivered: it raised or it returned
Finished == outcome.kind \in {"raised", "returned"}

PositiveInt(b) == b.kind = "int" /\ b.n > 0

\* every request that was issued was answered, and every price was found
AllAnswered == \A l \in Leaves : leaf[l] \in {"idle", "ok"}

\* C1: for a positive integer block and collaborators that all succeed,
\* describe returns a WalletBalances whose only categories are 'assets' and
\* 'debt': assets is the token balances with the native Balance under
\* EEE_ADDRESS, added to staking + collateral; debt is the debt result.
C1_SnapshotReturnsMerged ==
    (Finished /\ PositiveInt(block) /\ AllAnswered) =>
        /\ outcome.kind = "returned"
        /\ DOMAIN outcome.val = {"assets", "debt"}
        /\ LET merged == TokenBalances_add(task["assets"].val, task["ext"].val)
           IN  merged.ok /\ outcome.val["assets"] = merged.val
        /\ outcome.val["debt"] = DebtOut

\* the assets the collaborators' answers determine, whatever the order in
\* which they arrived
AnswersAssets ==
    [t \in tokens \cup {EEE_ADDRESS, cvx, yfi} |->
        IF t = EEE_ADDRESS
        THEN Balance(NativeOut.amount,
                     Round18(NativeOut.amount * NativeOut.price[1]))
        ELSE IF t = cvx THEN StakingOut[cvx]
        ELSE IF t = yfi THEN CollateralOut[yfi]
        ELSE Balance(TokenAmount(t), Round18(TokenAmount(t) * TokenPrice(t)[1]))]

\* C2: for fixed collaborator answers the WalletBalances describe returns
\* is the same in every order of completion of its requests: every run
\* that ends has returned the one result the answers determine.
C2_OrderIndependentResult ==
    (Finished /\ PositiveInt(block) /\ AllAnswered) =>
        /\ outcome.kind = "returned"
        /\ outcome.val = [assets |-> AnswersAssets, debt |-> DebtOut]

\* what describe's gather hands back when every request was answered is
\* fixed by the answers, in every order of completion
GatheredResultsDetermined ==
    (AllAnswered /\ GatherReturned({L("debt")}, {"assets", "ext"})) =>
        /\ task["assets"].val =
              [t \in tokens \cup {EEE_ADDRESS} |-> AnswersAssets[t]]
        /\ task["ext"].val = [t \in {cvx, yfi} |-> AnswersAssets[t]]

\* a member of describe's own join group has raised
RootMemberFailed ==
    \/ leaf[L("debt")] = "failed"
    \/ task["assets"].st = "failed"
    \/ task["ext"].st = "failed"

\* C3 (as amended): once a request of the snapshot has failed the snapshot
\* cannot end otherwise than by raising a failure, never by returning a
\* WalletBalances; and the failure of a member of describe's join group can
\* be delivered at once, without waiting for the siblings to settle.
C3_FailureEndsSnapshotAtOnce ==
    /\ (Finished /\ \E l \in Leaves : leaf[l] = "failed") =>
          /\ outcome.kind = "raised"
          /\ outcome.err \in {"ChainQueryError", "TypeError"}
    /\ (outcome.kind = "running" /\ RootMemberFailed) => ENABLED DescribeResume

\* C3, its case: a request failed, describe has raised that failure, and
\* another request of the snapshot is still in flight
C3_RaisedWhileSiblingInFlight ==
    /\ outcome.kind = "raised"
    /\ outcome.err = "ChainQueryError"
    /\ \E l \in Leaves : leaf[l] = "failed"
    /\ \E l \in Leaves : leaf[l] = "inflight"

\* C3 (as claimed): a failed request never lets describe return, and the
\* failure is delivered only once every sibling of describe's join group
\* has settled.
C3_FailureOnlyAfterSiblingsSettle ==
    /\ (\E l \in Leaves : leaf[l] = "failed") => outcome.kind # "returned"
    /\ (outcome.kind = "raised" /\ outcome.err = "ChainQueryError") =>
          /\ Settled(L("debt"))
          /\ task["assets"].st \in {"ok", "failed"}
          /\ task["ext"].st \in {"ok", "failed"}

\* C4: a block that is not a positive integer makes describe fail at once
\* with the malformed-block condition (the assert), before any request is
\* issued; a positive integer block passes the check.
C4_MalformedBlockFailsFast ==
    outcome.kind # "idle" =>
        IF PositiveInt(block)
        THEN outcome.err # "AssertionError"
        ELSE /\ outcome.kind = "raised"
             /\ outcome.err = "AssertionError"
             /\ \A l \in Leaves : leaf[l] = "idle"

\* C5: a price that comes back absent, for the native asset or for a token,
\* does not fail the snapshot; the entry is Balance(amount, 0) with the
\* amount kept.
C5_AbsentPriceIsZeroValue ==
    PositiveInt(block) =>
        /\ ( /\ leaf[L("eth_price")] = "absent"
             /\ leaf[L("eth_balance")] = "ok"
             /\ task["eth"].st # "waiting" ) =>
                /\ task["eth"].st = "ok"
                /\ task["eth"].val = Balance(NativeOut.amount, 0)
        /\ \A t \in tokens :
              ( /\ leaf[<<"price", t>>] = "absent"
                /\ task["tok"].st = "ok" ) =>
                   task["tok"].val[t] = Balance(TokenAmount(t), 0)
        /\ ( /\ Finished
             /\ \A l \in Leaves : leaf[l] \in {"idle", "ok", "absent"}
             /\ \E l \in Leaves : leaf[l] = "absent" ) =>
                outcome.kind = "returned"

---------------------------------------------------------------------------
(* Properties of WalletBalances, checked under SpecWalletBalances.         *)

\* C6: a read or a write of a WalletBalances with a key other than 'assets'
\* and 'debt' raises KeyError and leaves the container as it was; a read
\* or a write with 'assets' or 'debt' does not raise.
C6_CategoryDomainEnforced ==
    op \in {"getitem", "setitem"} =>
        IF rhs.key \in {"assets", "debt"}
        THEN res.ok
        ELSE ~res.ok /\ res.err = "KeyError" /\ lhs = rhs.before

\* C6, its case: a write under 'external' was refused on a container that
\* holds entries, and a read under 'debt' succeeded
C6_InvalidKeyRejected ==
    /\ op = "setitem"
    /\ rhs.key = "external"
    /\ rhs.value # EmptyDict
    /\ ~res.ok
    /\ DOMAIN lhs = {"assets", "debt"}
    /\ lhs = rhs.before

---------------------------------------------------------------------------
(* Properties of TokenBalances, checked under SpecTokenBalances.           *)

\* the entries of a TokenBalances whose Balance is not zero
NonZero(tb) == [t \in {x \in DOMAIN tb : Balance_bool(tb[x])} |-> tb[t]]

\* C7: for all TokenBalances a and b, also when they share token keys,
\* a + b completes without error and equals b + a.
C7_AddCommutes ==
    op = "add" =>
        /\ res.ok
        /\ LET swapped == TokenBalances_add(rhs, lhs)
           IN  swapped.ok /\ res.val = swapped.val

\* C8: for all TokenBalances a and b, (a + b) - b completes without error
\* and has exactly the non-zero entries of a, also when a key of b does not
\* occur in a or an entry of the difference is zero.
C8_SubUndoesAdd ==
    op = "add_sub" => (res.ok /\ NonZero(res.val) = NonZero(lhs))

\* C9: the container that a + b or a - b yields retains no key whose
\* combined value is zero; in particular {1: Balance(5, 50)} +
\* {1: Balance(-5, -50)} yields the empty TokenBalances, key 1 absent.
C9_NoZeroRetained ==
    /\ (op \in {"add", "sub"} /\ res.ok) =>
          \A t \in DOMAIN res.val : Balance_bool(res.val[t])
    /\ ( /\ op = "add"
         /\ lhs = [t \in {1} |-> Balance(5, 50)]
         /\ rhs = [t \in {1} |-> Balance(-5, -50)] ) =>
            (res.ok /\ res.val = EmptyDict)

---------------------------------------------------------------------------
(* Properties of PortfolioBalances, checked under SpecPortfolio.           *)

\* p holds no zero Balance, no empty category and no empty wallet
NonZeroPruned(p) ==
    \A w \in DOMAIN p :
        /\ DOMAIN p[w] # {}
        /\ \A c \in DOMAIN p[w] :
              /\ DOMAIN p[w][c] # {}
              /\ \A t \in DOMAIN p[w][c] : Balance_bool(p[w][c][t])

\* the non-zero (wallet, category, token) entries of a PortfolioBalances
Entries(p) ==
    UNION {UNION {{<<w, c, t, p[w][c][t]>> :
                      t \in {x \in DOMAIN p[w][c] : Balance_bool(p[w][c][x])}} :
                  c \in DOMAIN p[w]} : w \in DOMAIN p}

\* the non-zero entries of a PortfolioBalancesByCategory
EntriesByCategory(q) ==
    UNION {UNION {{<<w, c, t, q[c][w][t]>> :
                      t \in {x \in DOMAIN q[c][w] : Balance_bool(q[c][w][x])}} :
                  w \in DOMAIN q[c]} : c \in DOMAIN q}

\* C10: inverting a PortfolioBalances neither introduces nor drops a
\* non-zero (wallet, category, token) entry, and for a p that holds only
\* non-zero entries, inverting p and inverting the result back yields p.
C10_InvertRoundTrip ==
    /\ op = "inverted" => (res.ok /\ EntriesByCategory(res.val) = Entries(lhs))
    /\ (op = "invert" /\ NonZeroPruned(lhs)) => (res.ok /\ res.val = lhs)

\* C10, its case: a p of two wallets, one of them with assets and debt, was
\* inverted and inverted back
C10_RoundTripDone ==
    /\ op = "invert"
    /\ NonZeroPruned(lhs)
    /\ Cardinality(DOMAIN lhs) >= 2
    /\ \E w \in DOMAIN lhs : DOMAIN lhs[w] = Categories
    /\ DOMAIN rhs = Categories
    /\ res.ok
    /\ res.val = lhs

---------------------------------------------------------------------------
(* Properties of the operators, checked under SpecObjects.                 *)

\* what the operator returned, as a value
Result == Deep(res.h, res.ref, Depth(lhs.cls))

\* the container as a value holds no zero Balance and no empty container
RECURSIVE Pruned(_, _)
Pruned(v, depth) ==
    IF depth = 0 THEN Balance_bool(v)
    ELSE /\ depth > 1 => \A k \in DOMAIN v : DOMAIN v[k] # {}
         /\ \A k \in DOMAIN v : Pruned(v[k], depth - 1)

\* the operators on objects yield what the operators on values yield
ObjectsAgreeWithValues ==
    (lhs.cls = "TokenBalances" /\ ~op.changed) =>
        /\ op.name = "add" =>
              LET v == TokenBalances_add(lhs.val, rhs.val)
              IN  res.ok = v.ok /\ res.err = v.err /\ (v.ok => Result = v.val)
        /\ op.name = "sub" =>
              LET v == TokenBalances_sub(lhs.val, rhs.val)
              IN  res.ok = v.ok /\ res.err = v.err /\ (v.ok => Result = v.val)

\* C11: for a container c of each of the four types, c + zero() completes
\* and equals c, and the empty container zero() is falsy.  Stated for the
\* containers c that hold no zero entry, which an addition prunes.
C11_ZeroIsIdentity ==
    (op.name = "add" /\ ~op.changed /\ rhs.val = EmptyDict) =>
        /\ ~Container_bool(res.h, rhs)
        /\ Pruned(lhs.val, Depth(lhs.cls)) => (res.ok /\ Result = lhs.val)

\* C12: c + 0, 0 + c and c - 0 complete without error and yield a container
\* equal to c, for a container c of each type.
C12_LiteralZeroIsIdentity ==
    (op.name \in {"add0", "radd0", "sub0"} /\ ~op.changed) =>
        (res.ok /\ Result = lhs.val)

\* C13: r = c1 + c2 and r = c1 - c2 leave c1 and c2 with the keys and the
\* values they had, whether the operator returned or raised, and so does
\* a later change to r or to a container or Balance inside r.
C13_InputsNeverMutated ==
    op.name \in {"add", "sub"} =>
        /\ Deep(res.h, lhs.ref, Depth(lhs.cls)) = lhs.val
        /\ Deep(res.h, rhs.ref, Depth(rhs.cls)) = rhs.val

\* C13, its case: a sum of two containers that both hold a non-zero Balance
\* was returned and a Balance inside it was assigned afterwards
C13_ResultChangedAfterAdd ==
    /\ op.name = "add" /\ op.changed /\ res.ok
    /\ Container_bool(res.h, lhs)
    /\ Container_bool(res.h, rhs)
    /\ \E ref \in Level(res.h, {res.ref}, Depth(lhs.cls)) :
          res.h[ref] = Balance(7, 70)

---------------------------------------------------------------------------
(* Properties of the protocol classes, checked under SpecProtocols.        *)

\* C14: what Maker.debt, Maker.collateral and Convex.balances return is, on
\* every path, the empty one included, a TokenBalances, and the
\* orchestrator's TokenBalances addition of it does not raise.
C14_ProtocolsReturnTokenBalances ==
    (op.name = "call" /\ op.summed) =>
        (res.ok /\ res.val.cls = "TokenBalances")

\* C15: in every exposed class, a public method m has a counterpart
\* _m_async in the class, and a method whose name ends in async has the
\* counterpart named by dropping the leading '_' and the trailing '_async':
\* both tests pass for every (class, method) they are run on.
C15_SyncAsyncCounterparts ==
    op.name \in {"test_user_facing", "test_async_internal"} => res.ok

---------------------------------------------------------------------------
(* Properties of the reads, checked under SpecReads.                       *)

\* C16: a read of a WalletBalances (a key that is missing, .assets, .debt,
\* sum_usd, truthiness) inserts nothing: after any sequence of reads the
\* container has the keys it had and equals an untouched copy of itself.
C16_ReadsInsertNothing ==
    /\ DOMAIN lhs = DOMAIN rhs.untouched
    /\ lhs = rhs.untouched

=============================================================================
